---- MODULE Spec2Model ----
(***************************************************************************)
(* Environment control bridge of BevyStein (src/src/gym.rs).               *)
(*                                                                         *)
(* Three kinds of thread touch one Arc<Mutex<AIGymState<T>>>:              *)
(*   - the gotham request handlers screen, step and reset;                 *)
(*   - the render system save_image (Frame Capture Pipeline);              *)
(*   - the Simulation Tick Gate, whose code lives in other modules of the  *)
(*     crate (game.rs, control.rs); it is modelled from section 4.3 of     *)
(*     the specification.                                                  *)
(*                                                                         *)
(* f32 rewards are modelled as integers; an action payload is identified   *)
(* by the number of the step call that posted it (0 is the empty string of *)
(* AIGymState::default()); an image is identified by the world it shows.   *)
(***************************************************************************)
EXTENDS Integers, Sequences, FiniteSets, TLC

\* ---- bounds ----
NumHandlers == 2
MaxSteps == 2
MaxReward == 1
MaxDim == 3
MaxBlock == 4

Handlers == 1..NumHandlers
RewardVals == 0..MaxReward
\* Extent3d fields (u32) and block sizes of a texture format (u8); the products
\* formed from them stay far below 2^32, so u32 multiplication does not wrap here
Dims == 0..MaxDim
BlockSizes == 1..MaxBlock

VARIABLES
    \* AIGymState fields
    screen,                   \* Option<RgbaImage>: <<>> is None, <<w>> is Some(image of world w)
    rewards,                  \* Vec<f32>
    is_terminated,            \* bool
    is_environment_paused,    \* __is_environment_paused
    action_unparsed_string,   \* __action_unparsed_string; 0 is ""
    request_for_reset,        \* __request_for_reset
    \* the Mutex around AIGymState
    lock,                     \* <<>> free, <<"sim">>, <<"srv", h>>
    poisoned,                 \* a thread panicked while holding the guard
    \* simulation / render thread
    simPc,                    \* "gate", "save_lock", "save_submit", "save_wait", "finish", "crashed"
    applying,                 \* payload the gate took in this tick, 0 if none
    world,                    \* number of actions applied to the game in this episode
    desc,                     \* TextureDescriptor handed to texture_image_layout: size and block size
    layout,                   \* ImageDataLayout it returned: <<>> before the first call, <<l>> after
    \* request handlers
    pc,                       \* per handler: "idle", "screen", "step_store", "step_poll", "step_locked", "reset"
    resp,                     \* per handler: the last response
    act,                      \* per handler: payload posted by its step call
    \* history
    calls,                    \* step calls issued so far
    committed,                \* payload whose tick result rewards/is_terminated show, 0 if none
    epCalls,                  \* step calls issued since the last reset acknowledgement
    epIdx,                    \* per handler: index of its step call in that count
    resetsSince,              \* reset acknowledgements since the last step call was issued (capped at 2)
    afterReset,               \* per handler: its step call is the first one after a reset acknowledgement
    polled,                   \* per handler: its step call has finished a poll iteration that saw no pause
    fate                      \* per payload: "new", "stored", "applied", "overwritten", "discarded"

shared == <<screen, rewards, is_terminated, is_environment_paused,
            action_unparsed_string, request_for_reset>>
mutex == <<lock, poisoned>>
sim == <<simPc, applying, world, desc, layout>>
hist == <<calls, committed, epCalls, epIdx, resetsSince, afterReset, polled, fate>>
vars == <<screen, rewards, is_terminated, is_environment_paused,
          action_unparsed_string, request_for_reset, lock, poisoned,
          simPc, applying, world, desc, layout, pc, resp, act,
          calls, committed, epCalls, epIdx, resetsSince, afterReset, polled, fate>>

Free == <<>>
HeldBySim == <<"sim">>
HeldBy(h) == <<"srv", h>>

\* ---- responses ----
NoResp == [status |-> "none", reward |-> 0, is_terminated |-> FALSE, image |-> <<>>]
\* a handler that panics: gotham answers 500, nothing of the handler's reply is sent
Panicked == [status |-> "panic", reward |-> 0, is_terminated |-> FALSE, image |-> <<>>]
Ack == [status |-> "ok", reward |-> 0, is_terminated |-> FALSE, image |-> <<>>]
Png(img) == [status |-> "png", reward |-> 0, is_terminated |-> FALSE, image |-> img]
StepJson(r, t) == [status |-> "json", reward |-> r, is_terminated |-> t, image |-> <<>>]

\* AIGymState::default() (55-72), every thread before its first step, no layout computed yet
Constructed ==
    /\ screen = <<>>
    /\ rewards = <<>>
    /\ is_terminated = FALSE
    /\ is_environment_paused = FALSE
    /\ action_unparsed_string = 0
    /\ request_for_reset = FALSE
    /\ lock = Free
    /\ poisoned = FALSE
    /\ simPc = "gate"
    /\ applying = 0
    /\ world = 0
    /\ pc = [h \in Handlers |-> "idle"]
    /\ resp = [h \in Handlers |-> NoResp]
    /\ act = [h \in Handlers |-> 0]
    /\ calls = 0
    /\ committed = 0
    /\ epCalls = 0
    /\ epIdx = [h \in Handlers |-> 0]
    /\ resetsSince = 0
    /\ afterReset = [h \in Handlers |-> FALSE]
    /\ polled = [h \in Handlers |-> FALSE]
    /\ fate = [p \in 1..MaxSteps |-> "new"]
    /\ layout = <<>>

\* 233-255: the descriptor save_image builds: the size of AIGymSettings, one
\* layer (Extent3d default), Bgra8UnormSrgb (4 bytes per texel)
RenderImageDesc == [width |-> MaxDim, height |-> MaxDim, layers |-> 1, block |-> 4]

Init ==
    /\ Constructed
    /\ desc = RenderImageDesc

\* ---- routes (router, gym.rs 372-376) ----
StartScreen(h) ==
    /\ pc[h] = "idle"
    /\ pc' = [pc EXCEPT ![h] = "screen"]
    /\ resp' = [resp EXCEPT ![h] = NoResp]
    /\ UNCHANGED <<shared, mutex, sim, act, hist>>

StartStep(h) ==
    /\ pc[h] = "idle"
    /\ calls < MaxSteps
    /\ pc' = [pc EXCEPT ![h] = "step_store"]
    /\ resp' = [resp EXCEPT ![h] = NoResp]
    /\ act' = [act EXCEPT ![h] = calls + 1]
    /\ calls' = calls + 1
    /\ epCalls' = epCalls + 1
    /\ epIdx' = [epIdx EXCEPT ![h] = epCalls + 1]
    /\ afterReset' = [afterReset EXCEPT ![h] = (resetsSince > 0)]
    /\ resetsSince' = 0
    /\ UNCHANGED <<shared, mutex, sim, committed, polled, fate>>

StartReset(h) ==
    /\ pc[h] = "idle"
    /\ pc' = [pc EXCEPT ![h] = "reset"]
    /\ resp' = [resp EXCEPT ![h] = NoResp]
    /\ UNCHANGED <<shared, mutex, sim, act, hist>>

\* lock().unwrap() on a poisoned mutex panics in the handler
HandlerPanics(h) ==
    /\ pc' = [pc EXCEPT ![h] = "idle"]
    /\ resp' = [resp EXCEPT ![h] = Panicked]
    /\ act' = [act EXCEPT ![h] = 0]
    /\ epIdx' = [epIdx EXCEPT ![h] = 0]
    /\ afterReset' = [afterReset EXCEPT ![h] = FALSE]
    /\ polled' = [polled EXCEPT ![h] = FALSE]
    /\ UNCHANGED <<shared, mutex, sim, calls, committed, epCalls, resetsSince, fate>>

\* ---- screen (gym.rs 379-394) ----
\* variant of screen_handler: the frame is moved out of the state (Option::take)
\* instead of being cloned
screen_handler_takes(h) ==
    /\ pc[h] = "screen"
    /\ lock = Free
    /\ IF poisoned \/ screen = <<>>
         THEN HandlerPanics(h)
         ELSE /\ pc' = [pc EXCEPT ![h] = "idle"]
              /\ resp' = [resp EXCEPT ![h] = Png(screen)]
              /\ screen' = <<>>
              /\ UNCHANGED <<rewards, is_terminated, is_environment_paused,
                             action_unparsed_string, request_for_reset,
                             mutex, sim, act, hist>>

\* variant of screen_handler: the guard is bound to a name and alive at the
\* unwrap of the frame, so the panic on None poisons the mutex
screen_handler_poisons(h) ==
    /\ pc[h] = "screen"
    /\ lock = Free
    /\ IF poisoned \/ screen = <<>>
         THEN /\ pc' = [pc EXCEPT ![h] = "idle"]
              /\ resp' = [resp EXCEPT ![h] = Panicked]
              /\ poisoned' = TRUE
              /\ UNCHANGED <<shared, lock, sim, act, hist>>
         ELSE /\ pc' = [pc EXCEPT ![h] = "idle"]
              /\ resp' = [resp EXCEPT ![h] = Png(screen)]
              /\ UNCHANGED <<shared, mutex, sim, act, hist>>

\* 383: the guard is a temporary of the statement that clones the state; 384:
\* the unwrap of the cloned frame runs without the guard
screen_handler(h) ==
    /\ pc[h] = "screen"
    /\ lock = Free
    /\ IF poisoned \/ screen = <<>>
         THEN HandlerPanics(h)
         ELSE /\ pc' = [pc EXCEPT ![h] = "idle"]
              /\ resp' = [resp EXCEPT ![h] = Png(screen)]
              /\ UNCHANGED <<shared, mutex, sim, act, hist>>

\* ---- step (gym.rs 395-435) ----
\* variant of StoredAction: a payload still waiting in the slot is kept
StoredIfEmpty(old, new) == IF old = 0 THEN new ELSE old

\* 406: the value the slot holds after the assignment
StoredAction(old, new) == new

\* history: payload new replaces what the slot held
FateAfterStore(old, new) ==
    IF old # 0 /\ old # new
      THEN [fate EXCEPT ![old] = "overwritten", ![new] = "stored"]
      ELSE [fate EXCEPT ![new] = "stored"]

\* variant of step_store: the handler also clears the pause flag when it stores
step_store_unpauses(h) ==
    /\ pc[h] = "step_store"
    /\ lock = Free
    /\ IF poisoned
         THEN HandlerPanics(h)
         ELSE /\ action_unparsed_string' = StoredAction(action_unparsed_string, act[h])
              /\ is_environment_paused' = FALSE
              /\ pc' = [pc EXCEPT ![h] = "step_poll"]
              /\ fate' = FateAfterStore(action_unparsed_string, act[h])
              /\ UNCHANGED <<screen, rewards, is_terminated,
                             request_for_reset, mutex, sim, resp, act,
                             calls, committed, epCalls, epIdx, resetsSince,
                             afterReset, polled>>

\* 404-407: store the payload
step_store(h) ==
    /\ pc[h] = "step_store"
    /\ lock = Free
    /\ IF poisoned
         THEN HandlerPanics(h)
         ELSE /\ action_unparsed_string' = StoredAction(action_unparsed_string, act[h])
              /\ pc' = [pc EXCEPT ![h] = "step_poll"]
              /\ fate' = FateAfterStore(action_unparsed_string, act[h])
              /\ UNCHANGED <<screen, rewards, is_terminated, is_environment_paused,
                             request_for_reset, mutex, sim, resp, act,
                             calls, committed, epCalls, epIdx, resetsSince,
                             afterReset, polled>>

\* variant of step_poll: the pause is checked without the guard being kept for
\* the reads that follow
step_poll_unguarded(h) ==
    /\ pc[h] = "step_poll"
    /\ lock = Free
    /\ IF poisoned
         THEN HandlerPanics(h)
         ELSE /\ pc' = [pc EXCEPT ![h] = "step_locked"]
              /\ UNCHANGED <<shared, mutex, sim, resp, act, hist>>

\* 412: one poll iteration takes the guard
step_poll(h) ==
    /\ pc[h] = "step_poll"
    /\ lock = Free
    /\ IF poisoned
         THEN HandlerPanics(h)
         ELSE /\ lock' = HeldBy(h)
              /\ pc' = [pc EXCEPT ![h] = "step_locked"]
              /\ UNCHANGED <<shared, poisoned, sim, resp, act, hist>>

\* variant of StepReward: the subtraction of the second-to-last entry is left out
StepRewardLastOnly(rs) == IF Len(rs) > 0 THEN rs[Len(rs)] ELSE 0

\* 409, 415-420: reward from the last two entries
StepReward(rs) ==
    LET n == Len(rs)
        r1 == IF n > 0 THEN rs[n] ELSE 0
    IN  IF n > 1 THEN r1 - rs[n - 1] ELSE r1

\* variant of GuardAfterPoll: the guard is declared outside the loop and kept
GuardKeptAcrossPolls(h) == HeldBy(h)

\* 426: where the guard of a poll iteration that saw no pause ends up
GuardAfterPoll(h) == Free

\* variant of step_locked: the entry the answer is made of is popped off rewards
step_locked_drains(h) ==
    /\ pc[h] = "step_locked"
    /\ lock = HeldBy(h)
    /\ IF is_environment_paused
         THEN /\ resp' = [resp EXCEPT ![h] = StepJson(StepReward(rewards), is_terminated)]
              /\ rewards' = IF Len(rewards) > 0
                               THEN SubSeq(rewards, 1, Len(rewards) - 1)
                               ELSE rewards
              /\ pc' = [pc EXCEPT ![h] = "idle"]
              /\ lock' = Free
              /\ act' = [act EXCEPT ![h] = 0]
              /\ epIdx' = [epIdx EXCEPT ![h] = 0]
              /\ afterReset' = [afterReset EXCEPT ![h] = FALSE]
              /\ polled' = [polled EXCEPT ![h] = FALSE]
         ELSE /\ pc' = [pc EXCEPT ![h] = "step_poll"]
              /\ lock' = GuardAfterPoll(h)
              /\ polled' = [polled EXCEPT ![h] = TRUE]
              /\ UNCHANGED <<resp, act, epIdx, afterReset, rewards>>
    /\ UNCHANGED <<screen, is_terminated, is_environment_paused,
                   action_unparsed_string, request_for_reset,
                   poisoned, sim, calls, committed, epCalls, resetsSince, fate>>

\* 414-426: under the guard; the guard is dropped at the end of the iteration
step_locked(h) ==
    /\ pc[h] = "step_locked"
    /\ lock = HeldBy(h)
    /\ IF is_environment_paused
         THEN /\ resp' = [resp EXCEPT ![h] = StepJson(StepReward(rewards), is_terminated)]
              /\ pc' = [pc EXCEPT ![h] = "idle"]
              /\ lock' = Free
              /\ act' = [act EXCEPT ![h] = 0]
              /\ epIdx' = [epIdx EXCEPT ![h] = 0]
              /\ afterReset' = [afterReset EXCEPT ![h] = FALSE]
              /\ polled' = [polled EXCEPT ![h] = FALSE]
         ELSE /\ pc' = [pc EXCEPT ![h] = "step_poll"]
              /\ lock' = GuardAfterPoll(h)
              /\ polled' = [polled EXCEPT ![h] = TRUE]
              /\ UNCHANGED <<resp, act, epIdx, afterReset>>
    /\ UNCHANGED <<shared, poisoned, sim, calls, committed, epCalls, resetsSince, fate>>

\* ---- reset (gym.rs 437-446) ----
\* variant of ResetFlag: the flag is toggled
ResetFlagToggle(old) == ~old

\* variant of ResetFlag: the assignment is left out
ResetFlagKeep(old) == old

\* 443: the value written to __request_for_reset
ResetFlag(old) == TRUE

\* variant of reset_handler: the handler also empties the action slot
reset_handler_clears_slot(h) ==
    /\ pc[h] = "reset"
    /\ lock = Free
    /\ IF poisoned
         THEN HandlerPanics(h)
         ELSE /\ request_for_reset' = ResetFlag(request_for_reset)
              /\ action_unparsed_string' = 0
              /\ pc' = [pc EXCEPT ![h] = "idle"]
              /\ resp' = [resp EXCEPT ![h] = Ack]
              /\ epCalls' = 0
              /\ resetsSince' = IF resetsSince < 2 THEN resetsSince + 1 ELSE 2
              /\ UNCHANGED <<screen, rewards, is_terminated, is_environment_paused,
                             mutex, sim, act,
                             calls, committed, epIdx, afterReset, polled, fate>>

\* variant of reset_handler: the handler clears the episode itself
reset_handler_clears_episode(h) ==
    /\ pc[h] = "reset"
    /\ lock = Free
    /\ IF poisoned
         THEN HandlerPanics(h)
         ELSE /\ request_for_reset' = ResetFlag(request_for_reset)
              /\ rewards' = <<>>
              /\ is_terminated' = FALSE
              /\ pc' = [pc EXCEPT ![h] = "idle"]
              /\ resp' = [resp EXCEPT ![h] = Ack]
              /\ epCalls' = 0
              /\ resetsSince' = IF resetsSince < 2 THEN resetsSince + 1 ELSE 2
              /\ UNCHANGED <<screen, is_environment_paused,
                             action_unparsed_string, mutex, sim, act,
                             calls, committed, epIdx, afterReset, polled, fate>>

\* 440-445: set the flag under the guard, acknowledge
reset_handler(h) ==
    /\ pc[h] = "reset"
    /\ lock = Free
    /\ IF poisoned
         THEN HandlerPanics(h)
         ELSE /\ request_for_reset' = ResetFlag(request_for_reset)
              /\ pc' = [pc EXCEPT ![h] = "idle"]
              /\ resp' = [resp EXCEPT ![h] = Ack]
              /\ epCalls' = 0
              /\ resetsSince' = IF resetsSince < 2 THEN resetsSince + 1 ELSE 2
              /\ UNCHANGED <<screen, rewards, is_terminated, is_environment_paused,
                             action_unparsed_string, mutex, sim, act,
                             calls, committed, epIdx, afterReset, polled, fate>>

\* ---- Simulation Tick Gate (specification 4.3), start of a tick ----
\* variant of GateServicesReset: a pending action is taken before a reset is serviced
GateResetAfterAction ==
    request_for_reset /\ (action_unparsed_string = 0 \/ is_terminated)

\* "if reset_requested is true, transition to Resetting; else if pending_action ..."
GateServicesReset == request_for_reset

GateTick ==
    /\ simPc = "gate"
    /\ lock = Free
    /\ ~poisoned
    /\ IF GateServicesReset
         THEN \* Resetting
              /\ rewards' = <<>>
              /\ is_terminated' = FALSE
              /\ action_unparsed_string' = 0
              /\ request_for_reset' = FALSE
              /\ is_environment_paused' = FALSE
              /\ world' = 0
              /\ committed' = 0
              /\ fate' = IF action_unparsed_string # 0
                            THEN [fate EXCEPT ![action_unparsed_string] = "discarded"]
                            ELSE fate
              /\ UNCHANGED applying
         ELSE IF action_unparsed_string # 0 /\ ~is_terminated
         THEN \* Running: take the pending action and apply it to the game
              /\ applying' = action_unparsed_string
              /\ action_unparsed_string' = 0
              /\ is_environment_paused' = FALSE
              /\ world' = world + 1
              /\ fate' = [fate EXCEPT ![action_unparsed_string] = "applied"]
              /\ UNCHANGED <<rewards, is_terminated, request_for_reset, committed>>
         ELSE \* neither: pure render advance
              UNCHANGED <<rewards, is_terminated, action_unparsed_string,
                          request_for_reset, is_environment_paused, world,
                          applying, committed, fate>>
    /\ simPc' = "save_lock"
    /\ UNCHANGED <<screen, mutex, desc, layout, pc, resp, act, calls, epCalls, epIdx,
                   resetsSince, afterReset, polled>>

\* ---- save_image (gym.rs 206-289), RenderStage::Render of the same tick ----
\* 213: the guard is taken first and lives to the end of the function
save_image_lock ==
    /\ simPc = "save_lock"
    /\ lock = Free
    /\ ~poisoned
    /\ lock' = HeldBySim
    /\ simPc' = "save_submit"
    /\ UNCHANGED <<shared, poisoned, applying, world, desc, layout, pc, resp, act, hist>>

\* NonZeroU32::new
NonZeroU32_new(n) == IF n = 0 THEN <<>> ELSE <<n>>

\* variant of texture_image_layout: a row pitch is given for a single row as well
texture_image_layout_single_row(d) ==
    [bytes_per_row  |-> IF d.height > 0
                          THEN NonZeroU32_new(d.width * d.block)
                          ELSE <<>>,
     rows_per_image |-> IF d.layers > 1
                          THEN NonZeroU32_new(d.height)
                          ELSE <<>>]

\* 186-204: Option<NonZeroU32> is <<>> for None and <<n>> for Some(n)
texture_image_layout(d) ==
    [bytes_per_row  |-> IF d.height > 1
                          THEN NonZeroU32_new(d.width * d.block)
                          ELSE <<>>,
     rows_per_image |-> IF d.layers > 1
                          THEN NonZeroU32_new(d.height)
                          ELSE <<>>]

\* 215-262: staging buffer, copy command with its layout, render_queue.submit
save_image_submit ==
    /\ simPc = "save_submit"
    /\ simPc' = "save_wait"
    /\ layout' = <<texture_image_layout(desc)>>
    /\ UNCHANGED <<shared, mutex, applying, world, desc, pc, resp, act, hist>>

\* variant of FrameAfterCapture: the buffer is stored without looking at the map result
FrameStoredUnchecked(ok, old, img) == <<img>>

\* variant of FrameAfterCapture: the assignment to screen is left out
FrameNeverStored(ok, old, img) == old

\* 270-288: the screen field after the map result is known
FrameAfterCapture(ok, old, img) == IF ok THEN <<img>> ELSE old

\* 264-289: map_async, device.poll(Wait), block_on; panic on error, else store
save_image_wait ==
    /\ simPc = "save_wait"
    /\ \E ok \in BOOLEAN :
         /\ screen' = FrameAfterCapture(ok, screen, world)
         /\ IF ok
              THEN /\ simPc' = "finish"
                   /\ UNCHANGED poisoned
              ELSE \* panic! unwinds through the guard: the mutex is poisoned
                   /\ simPc' = "crashed"
                   /\ poisoned' = TRUE
    /\ lock' = Free
    /\ UNCHANGED <<rewards, is_terminated, is_environment_paused,
                   action_unparsed_string, request_for_reset,
                   applying, world, desc, layout, pc, resp, act, hist>>

\* ---- Simulation Tick Gate (specification 4.3), end of a tick ----
GateFinish ==
    /\ simPc = "finish"
    /\ lock = Free
    /\ ~poisoned
    /\ IF applying # 0
         THEN \E r \in RewardVals, t \in BOOLEAN :
                /\ rewards' = Append(rewards, r)
                /\ is_terminated' = t
                /\ is_environment_paused' = TRUE
                /\ committed' = applying
                /\ applying' = 0
         ELSE UNCHANGED <<rewards, is_terminated, is_environment_paused,
                          committed, applying>>
    /\ simPc' = "gate"
    /\ UNCHANGED <<screen, action_unparsed_string, request_for_reset, mutex,
                   world, desc, layout, pc, resp, act, calls, epCalls, epIdx,
                   resetsSince, afterReset, polled, fate>>

\* ---- specifications ----
SimStep ==
    \/ GateTick
    \/ save_image_lock
    \/ save_image_submit
    \/ save_image_wait
    \/ GateFinish

HandlerStep(h) ==
    \/ screen_handler(h)
    \/ step_store(h)
    \/ step_poll(h)
    \/ step_locked(h)
    \/ reset_handler(h)

\* gotham serves requests concurrently
Next ==
    \/ \E h \in Handlers : StartScreen(h)
    \/ \E h \in Handlers : StartStep(h)
    \/ \E h \in Handlers : StartReset(h)
    \/ \E h \in Handlers : HandlerStep(h)
    \/ SimStep

Spec == Init /\ [][Next]_vars

\* one external caller: a request is issued only after the previous one was answered
AllIdle == \A g \in Handlers : pc[g] = "idle"

NextSeq ==
    \/ \E h \in Handlers : AllIdle /\ StartScreen(h)
    \/ \E h \in Handlers : AllIdle /\ StartStep(h)
    \/ \E h \in Handlers : AllIdle /\ StartReset(h)
    \/ \E h \in Handlers : HandlerStep(h)
    \/ SimStep

SpecSeq == Init /\ [][NextSeq]_vars

\* texture_image_layout on its own: any descriptor, one call
Descs == [width : Dims, height : Dims, layers : Dims, block : BlockSizes]

InitLayout ==
    /\ Constructed
    /\ desc \in Descs

layout_call ==
    /\ layout = <<>>
    /\ layout' = <<texture_image_layout(desc)>>
    /\ UNCHANGED <<shared, mutex, simPc, applying, world, desc, pc, resp, act, hist>>

NextLayout == layout_call

SpecLayout == InitLayout /\ [][NextLayout]_vars

TypeOK ==
    /\ Len(screen) <= 1
    /\ Len(rewards) <= MaxSteps
    /\ is_terminated \in BOOLEAN
    /\ is_environment_paused \in BOOLEAN
    /\ action_unparsed_string \in 0..MaxSteps
    /\ request_for_reset \in BOOLEAN
    /\ simPc \in {"gate", "save_lock", "save_submit", "save_wait", "finish", "crashed"}
    /\ applying \in 0..MaxSteps
    /\ calls \in 0..MaxSteps
    /\ desc \in Descs
    /\ Len(layout) <= 1

\* ---- properties ----
\* the step in which handler h's step call leaves the poll loop with its answer
StepReturns(h) == pc[h] = "step_locked" /\ pc'[h] = "idle"

\* C1: with one caller, a step call in a running episode with no reset pending
\* returns only values shown after the gate has consumed and committed the action
\* that very call stored; it never returns on a pause left by an earlier step.
C1_StepAnswersOwnAction ==
    [][\A h \in Handlers :
         (StepReturns(h) /\ ~is_terminated /\ ~request_for_reset)
            => committed = act[h]]_vars

\* C2: with one caller and no reset, the i-th step call of an episode that has
\* not terminated answers rewards[i] - rewards[i-1], and rewards[1] for i = 1.
C2_IthRewardDifference ==
    [][\A h \in Handlers :
         (StepReturns(h) /\ ~is_terminated /\ ~request_for_reset)
            => /\ Len(rewards) >= epIdx[h]
               /\ resp'[h].reward =
                    IF epIdx[h] = 1
                      THEN rewards[1]
                      ELSE rewards[epIdx[h]] - rewards[epIdx[h] - 1]]_vars

\* C3: a step call answers only when it reads is_paused = true, and its answer is
\* made of the rewards and is_terminated read at that moment: last minus
\* second-to-last entry for two or more entries, the entry for one, 0 for none.
C3_RewardFromSnapshot ==
    [][\A h \in Handlers :
         StepReturns(h)
            => /\ is_environment_paused
               /\ resp'[h].status = "json"
               /\ resp'[h].is_terminated = is_terminated
               /\ resp'[h].reward =
                    CASE Len(rewards) >= 2 ->
                           rewards[Len(rewards)] - rewards[Len(rewards) - 1]
                      [] Len(rewards) = 1 -> rewards[1]
                      [] OTHER -> 0]_vars

\* C3 witness: a step call has answered the difference of two recorded rewards,
\* and that difference is not the last reward itself
C3_Witness ==
    \E h \in Handlers :
        /\ resp[h].status = "json"
        /\ Len(rewards) >= 2
        /\ resp[h].reward = rewards[Len(rewards)] - rewards[Len(rewards) - 1]
        /\ resp[h].reward # rewards[Len(rewards)]

\* C4: with one caller, the first step call after a reset acknowledgement answers
\* from the new episode: the reset has been serviced, the reward is the first
\* reward of the new episode, and is_terminated is not one left by an earlier tick
\* (false, unless the tick of this very action ended the new episode).
C4_StepAfterResetIsFresh ==
    [][\A h \in Handlers :
         (StepReturns(h) /\ afterReset[h])
            => /\ ~request_for_reset
               /\ Len(rewards) = 1
               /\ resp'[h].reward = rewards[1]
               /\ (resp'[h].is_terminated => committed = act[h])]_vars

\* C5: an observe request that finds no frame is answered NotReady; the handler
\* does not panic.
C5_ObserveNotReady ==
    [][\A h \in Handlers :
         (pc[h] = "screen" /\ pc'[h] = "idle" /\ ~poisoned /\ screen = <<>>)
            => resp'[h].status = "notready"]_vars

\* the shared state a serviced reset leaves
PostReset ==
    /\ rewards = <<>>
    /\ ~is_terminated
    /\ ~is_environment_paused
    /\ action_unparsed_string = 0
    /\ ~request_for_reset

\* C6: with one caller, after one reset or two resets in a row (no step call
\* since), once the gate has serviced what was requested the shared state is the
\* same post-reset state, however the requests interleaved with gate ticks.
C6_ResetIdempotent ==
    (resetsSince >= 1 /\ ~request_for_reset) => PostReset

\* C6 witness: an episode with a recorded step was reset twice in a row and the
\* gate has serviced the requests
C6_Witness ==
    /\ calls >= 1
    /\ resetsSince = 2
    /\ ~request_for_reset
    /\ PostReset
    /\ world = 0

\* C7: a reset request is answered in the one step in which it takes the lock,
\* whatever the simulation is doing: that step is enabled whenever the lock is
\* free, it acknowledges (the mutex being healthy) with reset_requested true,
\* the lock released, and frame, pending_action, is_paused, is_terminated and
\* rewards unchanged.
C7_ResetReturnsAtOnce ==
    /\ [](\A h \in Handlers :
            (pc[h] = "reset" /\ lock = Free) => ENABLED reset_handler(h))
    /\ [][\A h \in Handlers :
            (pc[h] = "reset" /\ pc'[h] # "reset")
               => /\ pc'[h] = "idle"
                  /\ lock' = Free
                  /\ UNCHANGED <<screen, action_unparsed_string,
                                 is_environment_paused, is_terminated, rewards>>
                  /\ (~poisoned => resp'[h] = Ack /\ request_for_reset')]_vars

\* C7 witness: a reset was acknowledged while the gate had not ticked at all and
\* the flag is still waiting for it
C7_Witness ==
    \E h \in Handlers :
        /\ resp[h] = Ack
        /\ request_for_reset
        /\ simPc = "gate"
        /\ screen = <<>>

\* C8: a step call holds the lock only inside one poll iteration; between two
\* iterations the lock is not held by it, so the simulation thread can take it.
C8_NoLockBetweenPolls ==
    \A h \in Handlers : (lock = HeldBy(h)) <=> (pc[h] = "step_locked")

\* C8 witness: a step call is between two polls and the simulation thread holds
\* the lock
C8_Witness ==
    \E h \in Handlers :
        /\ pc[h] = "step_poll"
        /\ polled[h]
        /\ lock = HeldBySim

\* C9: the lock is not held while the copy has been submitted to the GPU and the
\* thread waits for its completion.
C9_NoLockAcrossGpuWait ==
    simPc = "save_wait" => lock = Free

\* C10: a capture whose copy-complete signal reports an error leaves frame as it
\* was and is fatal: from then on the shared state never changes, the simulation
\* thread does nothing more, and no request is answered other than by a failure.
C10_CaptureFailureIsFatal ==
    [][/\ (simPc = "save_wait" /\ simPc' = "crashed") => (screen' = screen /\ poisoned')
       /\ simPc = "crashed" => (simPc' = "crashed" /\ poisoned)
       /\ poisoned =>
            /\ UNCHANGED shared
            /\ \A h \in Handlers :
                 resp'[h] # resp[h] => resp'[h].status \in {"none", "panic"}]_vars

\* C10 witness: a capture failed after an earlier frame had been stored, and a
\* request made afterwards has failed
C10_Witness ==
    /\ simPc = "crashed"
    /\ screen # <<>>
    /\ screen # <<world>>
    /\ \E h \in Handlers : resp[h] = Panicked

\* a step of the simulation thread / of the gate at the start / end of a tick
SimMoves == simPc' # simPc
GateStarts == simPc = "gate" /\ simPc' # simPc
GateEnds == simPc = "finish" /\ simPc' = "gate"

\* C11: frame is assigned only by save_image; a payload is put into
\* pending_action only by a step handler and reset_requested is set only by a
\* reset handler, the simulation thread only clearing them; no request handler
\* writes frame, rewards, is_paused or is_terminated.
C11_SingleWriter ==
    [][/\ screen' # screen => (simPc = "save_wait" /\ SimMoves /\ pc' = pc)
       /\ (action_unparsed_string' # action_unparsed_string
              /\ action_unparsed_string' # 0)
            => \E h \in Handlers :
                 /\ pc[h] = "step_store"
                 /\ pc'[h] = "step_poll"
                 /\ action_unparsed_string' = act[h]
                 /\ ~SimMoves
       /\ (request_for_reset' /\ ~request_for_reset)
            => \E h \in Handlers :
                 pc[h] = "reset" /\ pc'[h] = "idle" /\ ~SimMoves
       /\ pc' # pc
            => UNCHANGED <<screen, rewards, is_environment_paused, is_terminated>>
       /\ SimMoves
            => /\ action_unparsed_string' \in {action_unparsed_string, 0}
               /\ (request_for_reset' => request_for_reset)]_vars

\* C11 witness: each of the three writers has written: a frame is stored, a
\* payload waits in the slot and a reset is requested, while an answered observe
\* has left the frame in place
C11_Witness ==
    /\ screen # <<>>
    /\ action_unparsed_string # 0
    /\ request_for_reset
    /\ \E h \in Handlers : resp[h] = Png(screen)

\* C12: is_paused goes from false to true only at the end of the tick that
\* consumed an action, after the frame of that tick was captured and together
\* with the tick's reward and is_terminated; so whenever is_paused is true the
\* frame shows the world after the last applied action and rewards has one
\* entry per applied action.
C12_PauseAfterCommit ==
    /\ [][(~is_environment_paused /\ is_environment_paused')
            => /\ GateEnds
               /\ applying # 0
               /\ committed' = applying
               /\ Len(rewards') = Len(rewards) + 1
               /\ screen = <<world>>
               /\ screen' = screen]_vars
    /\ [](is_environment_paused
            => /\ screen = <<world>>
               /\ Len(rewards) = world
               /\ committed # 0)

\* C12 witness: a step call was answered for the action it stored and an observe
\* was answered the frame of the world after that action
C12_Witness ==
    \E h, g \in Handlers :
        /\ resp[h].status = "json"
        /\ is_environment_paused
        /\ committed = calls
        /\ world >= 1
        /\ resp[g] = Png(<<world>>)

\* the five fields a tick without reset and without action leaves alone
GateFields == <<is_environment_paused, rewards, is_terminated,
                action_unparsed_string, request_for_reset>>

\* C13: is_paused goes from true to false only in the gate's step of a tick that
\* services a reset or consumes a pending action; the gate's steps of a tick that
\* finds neither leave is_paused, rewards, is_terminated, pending_action and
\* reset_requested unchanged.
C13_UnpauseOnlyByGate ==
    [][/\ (is_environment_paused /\ ~is_environment_paused')
            => /\ GateStarts
               /\ \/ request_for_reset
                  \/ /\ action_unparsed_string # 0
                     /\ applying' = action_unparsed_string
                     /\ action_unparsed_string' = 0
       /\ (GateStarts /\ ~request_for_reset /\ action_unparsed_string = 0)
            => (UNCHANGED GateFields /\ applying' = 0)
       /\ (GateEnds /\ applying = 0) => UNCHANGED GateFields]_vars

\* C13 witness: the gate's step of a tick has run in a paused episode with no
\* reset and no action and the pause is still there
C13_Witness ==
    /\ simPc = "save_lock"
    /\ is_environment_paused
    /\ ~is_terminated
    /\ action_unparsed_string = 0
    /\ ~request_for_reset
    /\ \A h \in Handlers : pc[h] = "idle"

Payloads == 1..MaxSteps

\* the step in which handler h's step call stores its payload
StepStores(h) == pc[h] = "step_store" /\ pc'[h] = "step_poll"

\* C14, as claimed: every stored action is consumed exactly once; none is
\* dropped without being applied, whatever the interleaving.
C14_NoActionDropped ==
    \A p \in Payloads : fate[p] \notin {"overwritten", "discarded"}

\* C14, amended: the gate takes a payload out of the slot and clears the slot in
\* one step, and takes no payload twice; a payload leaves the slot only by being
\* taken, by a serviced reset, or by a later step call storing over it (the last
\* two drop it without applying it).
C14_ConsumedAtMostOnce ==
    [][/\ (applying' # applying /\ applying' # 0)
            => /\ GateStarts
               /\ applying' = action_unparsed_string
               /\ action_unparsed_string' = 0
               /\ fate[applying'] = "stored"
       /\ \A p \in Payloads : fate[p] = "applied" => fate'[p] = "applied"
       /\ (action_unparsed_string # 0
              /\ action_unparsed_string' # action_unparsed_string)
            => \/ GateStarts /\ applying' = action_unparsed_string
               \/ GateStarts /\ request_for_reset
               \/ \E h \in Handlers :
                    StepStores(h) /\ action_unparsed_string' = act[h]]_vars

\* C14 witness: one payload was applied, another was dropped
C14_Witness ==
    \E p, q \in Payloads :
        /\ fate[p] = "applied"
        /\ fate[q] \in {"overwritten", "discarded"}
        /\ action_unparsed_string = 0

\* C15: rewards grows by exactly one entry at the end of each tick that consumed
\* an action (the episode not being terminated), is emptied when a reset is
\* serviced, and is not changed by any other step, in particular by no handler.
C15_RewardsLength ==
    [][/\ Len(rewards') > Len(rewards)
            => /\ GateEnds
               /\ applying # 0
               /\ ~is_terminated
               /\ Len(rewards') = Len(rewards) + 1
               /\ SubSeq(rewards', 1, Len(rewards)) = rewards
       /\ Len(rewards') < Len(rewards)
            => (GateStarts /\ request_for_reset /\ rewards' = <<>>)
       /\ Len(rewards') = Len(rewards) => rewards' = rewards
       /\ (GateEnds /\ applying # 0) => Len(rewards') = Len(rewards) + 1
       /\ pc' # pc => rewards' = rewards]_vars

\* C15 witness: two ticks have each appended an entry and step calls were
\* answered from them
C15_Witness ==
    /\ Len(rewards) >= 2
    /\ world = Len(rewards)
    /\ \E h \in Handlers : resp[h].status = "json"

\* C16: a terminated episode is paused and stays terminated and paused, with
\* rewards unchanged and no action applied, in every step except the gate's step
\* that finds reset_requested.
C16_TerminalUntilReset ==
    /\ [](is_terminated => (is_environment_paused /\ applying = 0))
    /\ [][(is_terminated /\ ~(GateStarts /\ request_for_reset))
            => /\ is_terminated'
               /\ is_environment_paused'
               /\ rewards' = rewards
               /\ applying' = applying
               /\ world' = world
               /\ \A p \in Payloads :
                    fate'[p] = "applied" => fate[p] = "applied"]_vars

\* C16 witness: in a terminated episode a step call was answered, its payload
\* is still in the slot and the gate's step of a tick has passed it by
C16_Witness ==
    /\ is_terminated
    /\ is_environment_paused
    /\ action_unparsed_string # 0
    /\ fate[action_unparsed_string] = "stored"
    /\ simPc = "finish"
    /\ \E h \in Handlers : resp[h].status = "json" /\ resp[h].is_terminated
    /\ \A h \in Handlers : pc[h] = "idle"

\* C17: the gate's step of a tick that finds reset_requested leaves rewards
\* empty, is_terminated false, pending_action absent, reset_requested false and
\* is_paused false, whatever the state before; a payload waiting in the slot is
\* discarded by it and never applied.
C17_ResetHasPriority ==
    [][/\ (GateStarts /\ request_for_reset)
            => /\ rewards' = <<>>
               /\ ~is_terminated'
               /\ action_unparsed_string' = 0
               /\ ~request_for_reset'
               /\ ~is_environment_paused'
               /\ applying' = 0
               /\ world' = 0
               /\ (action_unparsed_string # 0
                     => fate'[action_unparsed_string] = "discarded")
       /\ \A p \in Payloads : fate[p] = "discarded" => fate'[p] = "discarded"]_vars

\* C17 witness: a reset was serviced in a tick that found a payload waiting
C17_Witness ==
    /\ \E p \in Payloads : fate[p] = "discarded"
    /\ simPc = "save_lock"
    /\ PostReset
    /\ applying = 0

\* C18: a step call stores its payload whatever the slot holds, so of two calls
\* that store before the gate's next step only the later payload is taken and
\* one reward is appended for it; the overwritten payload is never applied; a
\* step call is never rejected: it is answered, with the json answer, in the
\* poll that finds is_paused true.
C18_LastWriteWins ==
    [][/\ \A h \in Handlers :
            StepStores(h) => action_unparsed_string' = act[h]
       /\ (applying' # applying /\ applying' # 0)
            => /\ applying' = action_unparsed_string
               /\ fate[applying'] = "stored"
       /\ \A p \in Payloads : fate[p] = "overwritten" => fate'[p] = "overwritten"
       /\ GateEnds => Len(rewards') <= Len(rewards) + 1
       /\ \A h \in Handlers :
            (pc[h] \in {"step_store", "step_poll", "step_locked"}
               /\ pc'[h] = "idle" /\ ~poisoned)
              => (resp'[h].status = "json" /\ is_environment_paused)
       /\ \A h \in Handlers :
            (pc[h] = "step_locked" /\ pc'[h] # pc[h] /\ is_environment_paused)
              => pc'[h] = "idle"]_vars

\* C18 witness: two step calls stored before the gate took one; the earlier
\* payload was overwritten, one reward was appended, both calls were answered
C18_Witness ==
    /\ calls = 2
    /\ fate[1] = "overwritten"
    /\ fate[2] = "applied"
    /\ Len(rewards) = 1
    /\ \A h \in {1, 2} : resp[h].status = "json" /\ resp[h].reward = rewards[1]

\* C20: observe, whether it finds a frame or not, changes no field of the shared
\* state, never holds the lock from one step to the next and leaves the mutex as
\* healthy as it found it.
C20_ObserveHasNoEffect ==
    /\ [](\A h \in Handlers : pc[h] = "screen" => lock # HeldBy(h))
    /\ [][\A h \in Handlers :
            (pc[h] = "screen" /\ pc'[h] # "screen")
               => /\ pc'[h] = "idle"
                  /\ UNCHANGED shared
                  /\ lock' = Free
                  /\ poisoned' = poisoned]_vars

\* C20 witness: an observe failed on an absent frame, the mutex is healthy, and
\* afterwards a capture has stored a frame and a reset was acknowledged
C20_Witness ==
    \E h, g \in Handlers :
        /\ resp[h] = Panicked
        /\ ~poisoned
        /\ lock = Free
        /\ screen # <<>>
        /\ resp[g] = Ack

\* one caller, and fair scheduling: the simulation thread and every handler with
\* a request in hand get the lock again and again
SpecSeqFair ==
    /\ Init
    /\ [][NextSeq]_vars
    /\ SF_vars(SimStep)
    /\ \A h \in Handlers : SF_vars(HandlerStep(h))

\* C19: under fair scheduling every step call is eventually answered.
C19_StepEventuallyReturns ==
    \A h \in Handlers : (pc[h] = "step_store") ~> (pc[h] = "idle")

\* C21: from the moment a poll iteration of a step call has the guard until it
\* answers or gives the guard back, no other thread changes the shared state, so
\* the pause it sees, the rewards and the is_terminated it answers with are those
\* of one and the same state.
C21_SnapshotUnderOneGuard ==
    [][\A h \in Handlers :
         pc[h] = "step_locked"
            => /\ lock = HeldBy(h)
               /\ UNCHANGED shared
               /\ ~SimMoves
               /\ StepReturns(h)
                    => /\ is_environment_paused'
                       /\ resp'[h].reward = StepReward(rewards')
                       /\ resp'[h].is_terminated = is_terminated'
                       /\ lock' = Free]_vars

\* C21 witness: a poll iteration holds the guard over a paused state while the
\* gate, with a reset to service, and another step call wait for the lock
C21_Witness ==
    \E h, g \in Handlers :
        /\ pc[h] = "step_locked"
        /\ lock = HeldBy(h)
        /\ is_environment_paused
        /\ Len(rewards) >= 1
        /\ simPc = "gate"
        /\ request_for_reset
        /\ pc[g] = "step_store"

\* C22 as stated: bytes_per_row is width * b exactly when height > 1 and the
\* product is not zero, and rows_per_image is height exactly when layers > 1;
\* each is absent otherwise.
C22_LayoutAsStated ==
    layout # <<>> =>
        LET l == layout[1]
            p == desc.width * desc.block
        IN /\ l.bytes_per_row = IF desc.height > 1 /\ p # 0 THEN <<p>> ELSE <<>>
           /\ l.rows_per_image = IF desc.layers > 1 THEN <<desc.height>> ELSE <<>>

\* C22 amended: as above, and rows_per_image is absent as well when the height
\* is zero, whatever the number of layers.
C22_LayoutFields ==
    layout # <<>> =>
        LET l == layout[1]
            p == desc.width * desc.block
        IN /\ l.bytes_per_row = IF desc.height > 1 /\ p # 0 THEN <<p>> ELSE <<>>
           /\ l.rows_per_image = IF desc.layers > 1 /\ desc.height # 0
                                    THEN <<desc.height>> ELSE <<>>

\* C22 witness: the layout of a single-layer texture of several rows, as
\* save_image asks for: a row pitch and no rows_per_image
C22_Witness ==
    /\ layout # <<>>
    /\ desc.height > 1
    /\ desc.layers = 1
    /\ desc.width > 0
    /\ layout[1].bytes_per_row = <<desc.width * desc.block>>
    /\ layout[1].rows_per_image = <<>>

====
